---- MODULE Spec2Model ----
(***************************************************************************)
(* A model of the Vec of src/refactor3.rs (RawVec, Vec, RawValIter,        *)
(* IntoIter, Drain) and of its predecessor src/refactor2.rs (Vec, IntoIter *)
(* without RawVec, Drain and zero-sized types).                            *)
(*                                                                         *)
(* The heap block the Vec owns is kept slot by slot: `bits` is what the    *)
(* memory holds (ptr::read leaves the bits where they are), `init` is the  *)
(* ownership the unsafe code keeps in its head (a slot owns a value from   *)
(* the ptr::write that filled it to the ptr::read that moved it out).      *)
(* Elements are identified by the order of their creation, so that a value *)
(* read twice or never read shows in `moved`.  Values of a zero-sized type *)
(* occupy no storage and are all the same value.                           *)
(***************************************************************************)
EXTENDS Integers, Sequences, FiniteSets, TLC

\* Bound: how many elements a run creates when the element type has a size.
MaxPush == 3
\* Bound: the width of usize in bits (the source runs with 64).
UsizeBits == 3

\* !0, the largest usize.
UsizeMax == 2^UsizeBits - 1
\* Arithmetic on usize wraps in a release build.
Wrap(n) == n % (2^UsizeBits)

\* The elements a run may create.
Ids == 1..(IF MaxPush > 1 THEN MaxPush ELSE 1)
\* Slot offsets from buf.ptr, in elements.
Slots == 0..UsizeMax

\* The content of memory nobody wrote.
Garbage == 0
\* Err(AllocErr), the allocator's failure.
AllocErr == 0
\* NonNull::dangling(): the alignment of T taken as an address.
Dangling == 1
\* The addresses the allocator may hand out.
Addrs == {2, 3}

None == <<"None">>
Some(e) == <<"Some", e>>
Value(e) == <<"Value", e>>
Unit == <<"Unit">>

VARIABLES
    variant,    \* 2: refactor2.rs, 3: refactor3.rs
    zst,        \* mem::size_of::<T>() == 0
    debug,      \* the build checks arithmetic overflow (debug assertions);
                \* drawn only where it matters: no arithmetic on a sized
                \* type comes near usize::MAX
    status,     \* "vec", "drain", "iter", "gone", or the fatal outcome
    ptr,        \* RawVec.ptr (refactor2: Vec.ptr)
    cap,        \* RawVec.cap (refactor2: Vec.cap)
    len,        \* Vec.len
    start,      \* RawValIter.start (refactor2: IntoIter.start)
    end,        \* RawValIter.end (refactor2: IntoIter.end)
    heapAddr,   \* the allocator: address of the block it has handed out
    heapCap,    \* the allocator: element count of that block's layout
    bits,       \* the block's memory, slot by slot
    init,       \* which slots own a value
    created,    \* per element: how many values were handed to the container
    moved,      \* per element: how many times ptr::read moved it out of a slot
    allocs,     \* the allocator: how many blocks it has handed out
    frees,      \* the allocator: how many dealloc calls it has taken
    log,        \* since the last call on the Vec itself: allocator calls,
                \* destructor runs and the values an iterator yielded, in order
    ret,        \* what the last call returned
    ub,         \* an access outside the block, or a read of memory never written
    lastOp,     \* the last call made
    prevOp,     \* the call before a call on the Vec itself
    onlyPush,   \* every call so far was a push
    forgot,     \* a Drain was forgotten (mem::forget)
    budget,     \* how many more values the caller hands in
    snap        \* what the Vec held when drain, into_iter or drop was called,
                \* until the next call on the Vec itself

vars == <<variant, zst, debug, status, ptr, cap, len, start, end, heapAddr,
          heapCap, allocs, frees, bits, init, created, moved, log, ret, ub, lastOp, prevOp,
          onlyPush, forgot, budget, snap>>

\* The whole program state as one record, for the operations to transform.
World ==
    [variant |-> variant, zst |-> zst, debug |-> debug, status |-> status,
     ptr |-> ptr, cap |-> cap, len |-> len, start |-> start, end |-> end,
     heapAddr |-> heapAddr, heapCap |-> heapCap, allocs |-> allocs,
     frees |-> frees, bits |-> bits, init |-> init,
     created |-> created, moved |-> moved, log |-> log, ret |-> ret, ub |-> ub,
     lastOp |-> lastOp, prevOp |-> prevOp, onlyPush |-> onlyPush,
     forgot |-> forgot, budget |-> budget, snap |-> snap]

Commit(w) ==
    /\ variant' = w.variant /\ zst' = w.zst /\ debug' = w.debug
    /\ status' = w.status /\ ptr' = w.ptr /\ cap' = w.cap /\ len' = w.len
    /\ start' = w.start /\ end' = w.end /\ heapAddr' = w.heapAddr
    /\ heapCap' = w.heapCap /\ allocs' = w.allocs /\ frees' = w.frees
    /\ bits' = w.bits /\ init' = w.init
    /\ created' = w.created /\ moved' = w.moved /\ log' = w.log
    /\ ret' = w.ret /\ ub' = w.ub /\ lastOp' = w.lastOp
    /\ prevOp' = w.prevOp /\ onlyPush' = w.onlyPush /\ forgot' = w.forgot
    /\ budget' = w.budget /\ snap' = w.snap

----------------------------------------------------------------------------
(* Raw memory: std::ptr and the allocator.                                 *)

\* Slot i of the block behind w.ptr may be accessed.
Valid(w, i) ==
    IF w.zst THEN i \in Slots
    ELSE w.ptr = w.heapAddr /\ w.heapCap > 0 /\ i >= 0 /\ i < w.heapCap

\* ptr::write(ptr.offset(i), e): overwrites without dropping the old content.
ptr_write(w, i, e) ==
    IF ~Valid(w, i) THEN [w EXCEPT !.ub = TRUE]
    ELSE IF w.zst THEN [w EXCEPT !.init[i] = TRUE]
    ELSE [w EXCEPT !.bits[i] = e, !.init[i] = TRUE]

\* ptr::read(ptr.offset(i)): a bitwise copy out; the slot no longer owns it.
ptr_read(w, i) ==
    LET ok == Valid(w, i)
        v == IF ~ok THEN Garbage ELSE IF w.zst THEN 1 ELSE w.bits[i]
    IN [val |-> v,
        w |-> [w EXCEPT !.ub = @ \/ v = Garbage,
                        !.init = IF ok THEN [@ EXCEPT ![i] = FALSE] ELSE @,
                        !.moved = IF v # Garbage
                                  THEN [@ EXCEPT ![v] = @ + 1] ELSE @]]

\* ptr::copy(ptr.offset(src), ptr.offset(dst), n): memmove of n elements; the
\* values, and with them the ownership, now live at the destination.
ptr_copy(w, src, dst, n) ==
    IF n = 0 THEN w
    ELSE IF ~(Valid(w, src) /\ Valid(w, src + n - 1)
              /\ Valid(w, dst) /\ Valid(w, dst + n - 1))
    THEN [w EXCEPT !.ub = TRUE]
    ELSE LET from == src..(src + n - 1)
             to == dst..(dst + n - 1)
         IN [w EXCEPT
              !.bits = [i \in Slots |->
                          IF i \in to /\ ~w.zst THEN w.bits[i - dst + src]
                          ELSE w.bits[i]],
              !.init = [i \in Slots |->
                          IF i \in to THEN w.init[i - dst + src]
                          ELSE IF i \in from THEN FALSE
                          ELSE w.init[i]]]

\* Global.alloc(Layout::array::<T>(n)): a fresh block, or AllocErr.
alloc(w, n, ok, addr) ==
    IF ~ok
    THEN [res |-> AllocErr, w |-> [w EXCEPT !.log = Append(@, <<"alloc", n, FALSE>>)]]
    ELSE [res |-> addr,
          w |-> [w EXCEPT !.heapAddr = addr, !.heapCap = n, !.allocs = @ + 1,
                          !.bits = [i \in Slots |-> Garbage],
                          !.log = Append(@, <<"alloc", n, TRUE>>)]]

\* Global.realloc(p, Layout::array::<T>(old), size of new): the block grown in
\* place or moved with its content, or AllocErr and the block as it was.
\* A block other than the one handed out, or another layout, is undefined.
realloc(w, p, old, new, ok, addr) ==
    LET good == p = w.heapAddr /\ old = w.heapCap /\ w.heapCap > 0
        w1 == [w EXCEPT !.ub = @ \/ ~good,
                        !.log = Append(@, <<"realloc", old, new, ok>>)]
    IN IF ~ok THEN [res |-> AllocErr, w |-> w1]
       ELSE [res |-> addr,
             w |-> [w1 EXCEPT !.heapAddr = addr, !.heapCap = new,
                              !.bits = [i \in Slots |->
                                          IF i < w.heapCap /\ i < new
                                          THEN w.bits[i] ELSE Garbage]]]

\* Global.dealloc(p, Layout::array::<T>(n)): the block is gone.
dealloc(w, p, n) ==
    LET good == p = w.heapAddr /\ n = w.heapCap /\ w.heapCap > 0
    IN [w EXCEPT !.ub = @ \/ ~good,
                 !.heapAddr = IF good THEN Dangling ELSE @,
                 !.heapCap = IF good THEN 0 ELSE @,
                 !.frees = @ + 1,
                 !.log = Append(@, <<"dealloc", n>>)]

\* A value goes out of scope: its destructor runs.
drop_in_place(w, e) == [w EXCEPT !.log = Append(@, <<"drop", e>>)]

----------------------------------------------------------------------------
(* RawVec (refactor3.rs) and the buffer half of Vec (refactor2.rs).        *)

\* RawVec::new: the capacity of an empty buffer.
RawVec_new(z) == IF z THEN UsizeMax ELSE 0

\* RawVec::grow that grows by one element instead of doubling.
grow_by_one(w, ok, addr) ==
    IF w.variant = 3 /\ w.zst THEN [w EXCEPT !.status = "capacity overflow"]
    ELSE LET new_cap == IF w.cap = 0 THEN 1 ELSE Wrap(w.cap + 1)
             a == IF w.cap = 0 THEN alloc(w, 1, ok, addr)
                  ELSE realloc(w, w.ptr, w.cap, new_cap, ok, addr)
         IN IF a.res = AllocErr THEN [a.w EXCEPT !.status = "oom"]
            ELSE [a.w EXCEPT !.ptr = a.res, !.cap = new_cap]

\* RawVec::grow without the assert on the element size.
grow_no_assert(w, ok, addr) ==
    LET new_cap == IF w.cap = 0 THEN 1 ELSE Wrap(2 * w.cap)
        a == IF w.cap = 0 THEN alloc(w, 1, ok, addr)
             ELSE realloc(w, w.ptr, w.cap, new_cap, ok, addr)
    IN IF a.res = AllocErr THEN [a.w EXCEPT !.status = "oom"]
       ELSE [a.w EXCEPT !.ptr = a.res, !.cap = new_cap]

\* RawVec::grow (refactor2.rs: Vec::grow, which has no zero-sized types).
grow(w, ok, addr) ==
    IF w.variant = 3 /\ w.zst THEN [w EXCEPT !.status = "capacity overflow"]
    ELSE LET new_cap == IF w.cap = 0 THEN 1 ELSE Wrap(2 * w.cap)
             a == IF w.cap = 0 THEN alloc(w, 1, ok, addr)
                  ELSE realloc(w, w.ptr, w.cap, new_cap, ok, addr)
         IN IF a.res = AllocErr THEN [a.w EXCEPT !.status = "oom"]
            ELSE [a.w EXCEPT !.ptr = a.res, !.cap = new_cap]

\* Drop for RawVec that frees with the layout of len elements.
RawVec_drop_len(w) ==
    IF w.cap # 0 /\ ~w.zst THEN dealloc(w, w.ptr, w.len) ELSE w

\* Drop for RawVec (refactor2.rs: Drop for Vec, which is only this).
RawVec_drop(w) ==
    IF w.cap # 0 /\ ~w.zst THEN dealloc(w, w.ptr, w.cap) ELSE w

----------------------------------------------------------------------------
(* Vec.                                                                    *)

\* Vec::push that bumps self.len before the write.
push_bumps_first(w, elem, ok, addr) ==
    LET w1 == IF w.len = w.cap THEN grow(w, ok, addr) ELSE w
    IN IF w1.status # w.status THEN w1
       ELSE [ptr_write(w1, w1.len + 1, elem) EXCEPT !.len = w1.len + 1,
                                                    !.ret = Unit]

\* Vec::push
push(w, elem, ok, addr) ==
    LET w1 == IF w.len = w.cap THEN grow(w, ok, addr) ELSE w
    IN IF w1.status # w.status THEN w1
       ELSE [ptr_write(w1, w1.len, elem) EXCEPT !.len = w1.len + 1, !.ret = Unit]

\* Vec::pop that reads the slot before it decrements self.len.
pop_reads_first(w) ==
    IF w.len = 0 THEN [w EXCEPT !.ret = None]
    ELSE LET r == ptr_read([w EXCEPT !.len = w.len - 1], w.len)
         IN [r.w EXCEPT !.ret = Some(r.val)]

\* Vec::pop that takes the first element instead of the last.
pop_front(w) ==
    IF w.len = 0 THEN [w EXCEPT !.ret = None]
    ELSE LET r == ptr_read([w EXCEPT !.len = w.len - 1], 0)
         IN [r.w EXCEPT !.ret = Some(r.val)]

\* Vec::pop
pop(w) ==
    IF w.len = 0 THEN [w EXCEPT !.ret = None]
    ELSE LET r == ptr_read([w EXCEPT !.len = w.len - 1], w.len - 1)
         IN [r.w EXCEPT !.ret = Some(r.val)]

\* Vec::insert without the ptr::copy that makes room.
insert_no_shift(w, index, elem, ok, addr) ==
    IF ~(index <= w.len) THEN [w EXCEPT !.status = "index out of bounds"]
    ELSE LET w1 == IF w.cap = w.len THEN grow(w, ok, addr) ELSE w
         IN IF w1.status # w.status THEN w1
            ELSE [ptr_write(w1, index, elem) EXCEPT !.len = w1.len + 1,
                                                    !.ret = Unit]

\* Vec::insert that grows before it checks the index.
insert_grows_first(w, index, elem, ok, addr) ==
    LET w1 == IF w.cap = w.len THEN grow(w, ok, addr) ELSE w
    IN IF w1.status # w.status THEN w1
       ELSE IF ~(index <= w1.len) THEN [w1 EXCEPT !.status = "index out of bounds"]
       ELSE LET w2 == IF index < w1.len
                      THEN ptr_copy(w1, index, index + 1, w1.len - index)
                      ELSE w1
            IN [ptr_write(w2, index, elem) EXCEPT !.len = w1.len + 1,
                                                  !.ret = Unit]

\* Vec::insert
insert(w, index, elem, ok, addr) ==
    IF ~(index <= w.len) THEN [w EXCEPT !.status = "index out of bounds"]
    ELSE LET w1 == IF w.cap = w.len THEN grow(w, ok, addr) ELSE w
         IN IF w1.status # w.status THEN w1
            ELSE LET w2 == IF index < w1.len
                           THEN ptr_copy(w1, index, index + 1, w1.len - index)
                           ELSE w1
                 IN [ptr_write(w2, index, elem) EXCEPT !.len = w1.len + 1,
                                                       !.ret = Unit]

\* Vec::remove without the ptr::copy that closes the gap.
remove_no_shift(w, index) ==
    IF ~(index < w.len) THEN [w EXCEPT !.status = "index out of bounds"]
    ELSE LET r == ptr_read([w EXCEPT !.len = w.len - 1], index)
         IN [r.w EXCEPT !.ret = Value(r.val)]

\* Vec::remove without self.len -= 1.
remove_keeps_len(w, index) ==
    IF ~(index < w.len) THEN [w EXCEPT !.status = "index out of bounds"]
    ELSE LET r == ptr_read(w, index)
             w2 == ptr_copy(r.w, index + 1, index, r.w.len - 1 - index)
         IN [w2 EXCEPT !.ret = Value(r.val)]

\* Vec::remove that fills the gap with the last element instead of shifting.
remove_swaps_last(w, index) ==
    IF ~(index < w.len) THEN [w EXCEPT !.status = "index out of bounds"]
    ELSE LET r == ptr_read([w EXCEPT !.len = w.len - 1], index)
             w2 == IF index < r.w.len THEN ptr_copy(r.w, r.w.len, index, 1)
                   ELSE r.w
         IN [w2 EXCEPT !.ret = Value(r.val)]

\* Vec::remove
remove(w, index) ==
    IF ~(index < w.len) THEN [w EXCEPT !.status = "index out of bounds"]
    ELSE LET r == ptr_read([w EXCEPT !.len = w.len - 1], index)
             w2 == ptr_copy(r.w, index + 1, index, r.w.len - index)
         IN [w2 EXCEPT !.ret = Value(r.val)]

\* Deref for Vec: the slice [0, len) as the sequence of its values.
deref(w) ==
    [i \in 1..w.len |-> IF w.zst THEN 1
                        ELSE IF Valid(w, i - 1) THEN w.bits[i - 1]
                        ELSE Garbage]

\* while let Some(_) = self.pop() {} of Drop for Vec
RECURSIVE Vec_drop_loop(_)
Vec_drop_loop(w) ==
    LET w1 == pop(w)
    IN IF w1.ret = None THEN w1
       ELSE Vec_drop_loop(drop_in_place(w1, w1.ret[2]))

\* Drop for Vec that frees the buffer and forgets the elements in it.
Vec_drop_no_loop(w) ==
    [RawVec_drop(w) EXCEPT !.status = "gone", !.ret = Unit]

\* Drop for Vec, then (refactor3.rs) the drop of its field buf.
Vec_drop(w) ==
    LET w1 == IF w.variant = 3 THEN Vec_drop_loop(w) ELSE w
    IN [RawVec_drop(w1) EXCEPT !.status = "gone", !.ret = Unit]

----------------------------------------------------------------------------
(* RawValIter (refactor2.rs: the cursor half of IntoIter).  A cursor of a   *)
(* sized type is kept as the slot offset from slice.as_ptr(), which stays  *)
(* where it is while the cursor lives; a cursor of a zero-sized type is    *)
(* the usize the source counts with, starting at the dangling address.     *)

\* slice.as_ptr(), as a cursor value.
as_ptr(w) == IF w.zst THEN w.ptr ELSE 0
\* The slot a cursor value points at.
SlotOf(w, p) == IF w.zst THEN Wrap(p - Dangling + UsizeMax + 1) ELSE p

\* RawValIter::new(&vec)
RawValIter_new(w) ==
    LET s == as_ptr(w)
    IN IF w.zst
       THEN IF w.debug /\ s + w.len > UsizeMax
            THEN [w EXCEPT !.status = "attempt to add with overflow"]
            ELSE [w EXCEPT !.start = s, !.end = Wrap(s + w.len)]
       ELSE IF w.len = 0
            THEN [w EXCEPT !.start = s, !.end = s]
            ELSE [w EXCEPT !.start = s, !.end = s + w.len]

\* Iterator::next for RawValIter (refactor2.rs: for IntoIter)
next(w) ==
    IF w.start = w.end THEN [w EXCEPT !.ret = None]
    ELSE LET r == ptr_read(w, SlotOf(w, w.start))
         IN IF w.zst /\ w.debug /\ w.start + 1 > UsizeMax
            THEN [r.w EXCEPT !.status = "attempt to add with overflow"]
            ELSE [r.w EXCEPT !.start = IF w.zst THEN Wrap(w.start + 1)
                                       ELSE w.start + 1,
                             !.ret = Some(r.val)]

\* DoubleEndedIterator::next_back for RawValIter (refactor2.rs: for IntoIter)
next_back(w) ==
    IF w.start = w.end THEN [w EXCEPT !.ret = None]
    ELSE IF w.zst /\ w.debug /\ w.end - 1 < 0
    THEN [w EXCEPT !.status = "attempt to subtract with overflow"]
    ELSE LET e == IF w.zst THEN Wrap(w.end - 1 + UsizeMax + 1) ELSE w.end - 1
             r == ptr_read([w EXCEPT !.end = e], SlotOf(w, e))
         IN [r.w EXCEPT !.ret = Some(r.val)]

----------------------------------------------------------------------------
(* IntoIter and Drain.                                                     *)

\* Vec::into_iter of refactor3.rs without mem::forget(self): the Vec is
\* dropped when into_iter returns, and the IntoIter keeps a copy of its RawVec.
into_iter3_no_forget(w) ==
    LET w1 == RawValIter_new(w)
    IN IF w1.status # w.status THEN w1
       ELSE [Vec_drop(w1) EXCEPT !.status = "iter"]

\* Vec::into_iter of refactor3.rs: the cursor, the RawVec read out, the Vec
\* forgotten.
into_iter3(w) ==
    LET w1 == RawValIter_new(w)
    IN IF w1.status # w.status THEN w1 ELSE [w1 EXCEPT !.status = "iter"]

\* Vec::into_iter of refactor2.rs
into_iter2(w) ==
    [w EXCEPT !.status = "iter", !.start = as_ptr(w),
              !.end = IF w.cap = 0 THEN as_ptr(w) ELSE as_ptr(w) + w.len]

\* Vec::into_iter
into_iter(w) ==
    [(IF w.variant = 3 THEN into_iter3(w) ELSE into_iter2(w)) EXCEPT !.ret = Unit]

\* Vec::drain without self.len = 0.
drain_keeps_len(w) ==
    LET w1 == RawValIter_new(w)
    IN IF w1.status # w.status THEN w1
       ELSE [w1 EXCEPT !.status = "drain", !.ret = Unit]

\* Vec::drain
drain(w) ==
    LET w1 == RawValIter_new(w)
    IN IF w1.status # w.status THEN w1
       ELSE [w1 EXCEPT !.len = 0, !.status = "drain", !.ret = Unit]

\* Iterator::next for IntoIter
IntoIter_next(w) == next(w)
\* DoubleEndedIterator::next_back for IntoIter
IntoIter_next_back(w) == next_back(w)
\* Iterator::next for Drain that takes from the front of the cursor.
Drain_next_front(w) == next(w)
\* Iterator::next for Drain
Drain_next(w) == next_back(w)
\* DoubleEndedIterator::next_back for Drain
Drain_next_back(w) == next_back(w)

\* for _ in &mut *self {} of Drop for IntoIter: every value next yields is dropped.
RECURSIVE IntoIter_exhaust(_)
IntoIter_exhaust(w) ==
    LET w1 == IntoIter_next(w)
    IN IF w1.status # w.status \/ w1.ret = None THEN w1
       ELSE IntoIter_exhaust(drop_in_place(w1, w1.ret[2]))

\* Drop for IntoIter without its loop: only the field _buf is dropped.
IntoIter_drop_no_loop(w) ==
    [RawVec_drop(w) EXCEPT !.status = "gone", !.ret = Unit]

\* Drop for IntoIter, then the drop of its field _buf.  refactor2.rs gives
\* IntoIter no Drop, and its fields are pointers and a usize.
IntoIter_drop(w) ==
    IF w.variant = 2 THEN [w EXCEPT !.status = "gone", !.ret = Unit]
    ELSE LET w1 == IntoIter_exhaust(w)
         IN IF w1.status # w.status THEN w1
            ELSE [RawVec_drop(w1) EXCEPT !.status = "gone", !.ret = Unit]

\* for _ in &mut self.iter {} of Drop for Drain
RECURSIVE Drain_exhaust(_)
Drain_exhaust(w) ==
    LET w1 == next(w)
    IN IF w1.status # w.status \/ w1.ret = None THEN w1
       ELSE Drain_exhaust(drop_in_place(w1, w1.ret[2]))

\* Drop for Drain that releases the buffer, as if the Drain owned it.
Drain_drop_frees(w) ==
    LET w1 == Drain_exhaust(w)
    IN IF w1.status # w.status THEN w1
       ELSE [RawVec_drop(w1) EXCEPT !.status = "vec", !.ret = Unit]

\* Drop for Drain: the borrow of the Vec ends.
Drain_drop(w) ==
    LET w1 == Drain_exhaust(w)
    IN IF w1.status # w.status THEN w1
       ELSE [w1 EXCEPT !.status = "vec", !.ret = Unit]

\* mem::forget(drain): the borrow ends and no destructor runs.
Drain_forget(w) == [w EXCEPT !.status = "vec", !.ret = Unit, !.forgot = TRUE]

----------------------------------------------------------------------------
(* The caller.                                                             *)

\* The value the caller hands in next.
Fresh(w) == IF w.zst THEN 1 ELSE Cardinality({e \in Ids : w.created[e] > 0}) + 1
\* The caller may create one more value.
CanCreate(w) == w.budget > 0
\* Nothing kept.
NoSnap == [held |-> <<>>, moved |-> [e \in Ids |-> 0]]
\* The caller makes call op on the Vec.
Call(w, op) ==
    [w EXCEPT !.lastOp = op, !.prevOp = w.lastOp, !.log = <<>>, !.snap = NoSnap,
              !.onlyPush = @ /\ op = "push"]
\* The caller makes call op on the iterator it holds.
Step(w, op) == [w EXCEPT !.lastOp = op, !.prevOp = "iterator"]
\* The caller hands value e to call op on the Vec.
Give(w, e, op) ==
    [Call(w, op) EXCEPT !.created[e] = @ + 1, !.budget = @ - 1]
\* The caller makes call op, which consumes or borrows the whole Vec: what
\* the Vec holds at that moment is kept for the properties to refer to.
Mark(w, op) ==
    [Call(w, op) EXCEPT !.snap = [held |-> deref(w), moved |-> w.moved]]
\* The caller takes what an iterator returned.
Receive(w) ==
    IF w.ret[1] = "Some" THEN [w EXCEPT !.log = Append(@, <<"yield", w.ret[2]>>)]
    ELSE w

\* How many values a Vec of a zero-sized type holds when the run starts: a
\* new one holds none, and one that UsizeMax - 1 pushes have filled is a
\* push away from capacity (a run of MaxPush values cannot get there).
ZstFill == {0, UsizeMax - 1}

Init ==
    /\ variant \in {2, 3}
    /\ zst \in BOOLEAN
    /\ debug \in (IF zst THEN BOOLEAN ELSE {FALSE})
    /\ status = IF variant = 2 /\ zst THEN "We're not ready to handle ZSTs" ELSE "vec"
    /\ ptr = Dangling
    /\ cap = IF variant = 3 THEN RawVec_new(zst) ELSE 0
    /\ len \in (IF variant = 3 /\ zst THEN ZstFill ELSE {0})
    /\ start = 0
    /\ end = 0
    /\ heapAddr = Dangling
    /\ heapCap = 0
    /\ allocs = 0
    /\ frees = 0
    /\ bits = [i \in Slots |-> Garbage]
    /\ init = [i \in Slots |-> i < len]
    /\ created = [e \in Ids |-> IF e = 1 THEN len ELSE 0]
    /\ moved = [e \in Ids |-> 0]
    /\ log = <<>>
    /\ ret = Unit
    /\ ub = FALSE
    /\ lastOp = "new"
    /\ prevOp = "new"
    /\ onlyPush = TRUE
    /\ forgot = FALSE
    /\ budget = MaxPush
    /\ snap = NoSnap

Push ==
    /\ status = "vec" /\ CanCreate(World)
    /\ \E ok \in BOOLEAN, addr \in Addrs :
         Commit(push(Give(World, Fresh(World), "push"), Fresh(World), ok, addr))

Pop ==
    /\ status = "vec"
    /\ Commit(pop(Call(World, "pop")))

Insert ==
    /\ status = "vec" /\ CanCreate(World)
    /\ \E index \in 0..(len + 1), ok \in BOOLEAN, addr \in Addrs :
         Commit(insert(Give(World, Fresh(World), "insert"), index, Fresh(World),
                       ok, addr))

Remove ==
    /\ status = "vec"
    /\ \E index \in 0..len :
         Commit(remove(Call(World, "remove"), index))

IntoIter ==
    /\ status = "vec"
    /\ Commit(into_iter(Mark(World, "into_iter")))

DrainVec ==
    /\ status = "vec" /\ variant = 3
    /\ Commit(drain(Mark(World, "drain")))

DropVec ==
    /\ status = "vec"
    /\ Commit(Vec_drop(Mark(World, "drop_vec")))

IterNext ==
    /\ status = "iter"
    /\ Commit(Receive(IntoIter_next(Step(World, "next"))))

IterNextBack ==
    /\ status = "iter"
    /\ Commit(Receive(IntoIter_next_back(Step(World, "next_back"))))

IterDrop ==
    /\ status = "iter"
    /\ Commit(IntoIter_drop(Step(World, "drop_iter")))

DrainNext ==
    /\ status = "drain"
    /\ Commit(Receive(Drain_next(Step(World, "next"))))

DrainNextBack ==
    /\ status = "drain"
    /\ Commit(Receive(Drain_next_back(Step(World, "next_back"))))

DrainDrop ==
    /\ status = "drain"
    /\ Commit(Drain_drop(Step(World, "drop_drain")))

DrainForget ==
    /\ status = "drain"
    /\ Commit(Drain_forget(Step(World, "forget")))

Next ==
    \/ Push
    \/ Pop
    \/ Insert
    \/ Remove
    \/ IntoIter
    \/ DrainVec
    \/ DropVec
    \/ IterNext
    \/ IterNextBack
    \/ IterDrop
    \/ DrainNext
    \/ DrainNextBack
    \/ DrainDrop
    \/ DrainForget

Spec == Init /\ [][Next]_vars

----------------------------------------------------------------------------
(* Properties.                                                             *)

\* How often e occurs in sequence s.
Count(s, e) == Cardinality({i \in DOMAIN s : s[i] = e})
\* The values of the log's events of one kind ("yield", "drop"), in order.
Elems(l, kind) ==
    LET evs == SelectSeq(l, LAMBDA ev : ev[1] = kind)
    IN [i \in DOMAIN evs |-> evs[i][2]]
\* How many values the caller has handed in (a filled Vec's included).
NCreated ==
    IF zst THEN created[1] ELSE Cardinality({e \in Ids : created[e] > 0})
\* The slots the cursor has not yielded yet.
Pending ==
    LET n == IF zst THEN Wrap(end - start + UsizeMax + 1) ELSE end - start
    IN {SlotOf(World, IF zst THEN Wrap(start + k) ELSE start + k) : k \in 0..(n - 1)}
\* Every value the Vec held at the marked call has since been moved out of
\* its slot exactly once, and was either yielded or destroyed.
HeldMovedOnce ==
    \A e \in Ids :
        /\ moved[e] - snap.moved[e] = Count(snap.held, e)
        /\ Count(Elems(log, "yield"), e) + Count(Elems(log, "drop"), e)
             = Count(snap.held, e)

\* C1: in refactor3.rs, once a Drain of a Vec holding n elements has been
\* dropped, after any number of next/next_back calls, the Vec has length 0
\* and each of the n elements was moved out of its slot exactly once, yielded
\* or destroyed; dropping the Vec then destroys nothing more.
C1_DrainMovesEachOnce ==
    (variant = 3 /\ status = "vec" /\ lastOp = "drop_drain") =>
        /\ len = 0
        /\ ~ub
        /\ HeldMovedOnce
        /\ ~forgot => \A i \in Slots : ~init[i]
        /\ LET w == Vec_drop(Mark(World, "drop_vec"))
           IN /\ w.moved = moved
              /\ ~w.ub
              /\ Elems(w.log, "drop") = <<>>
              /\ w.heapCap = 0

C1_Witness ==
    /\ variant = 3 /\ status = "vec" /\ lastOp = "drop_drain" /\ ~zst
    /\ snap.held = <<1, 2, 3>>
    /\ Elems(log, "yield") = <<3>>
    /\ Elems(log, "drop") = <<1, 2>>

\* C2: in refactor3.rs, once an IntoIter has been dropped, after any mix of
\* next/next_back calls, every element the Vec held was moved out exactly
\* once: the yielded ones by the call that yielded them, the others by the
\* drop, which destroys them before the buffer is released.
C2_IntoIterDropDestroysRest ==
    (variant = 3 /\ status = "gone" /\ lastOp = "drop_iter") =>
        /\ ~ub
        /\ HeldMovedOnce
        /\ \A i \in DOMAIN log : log[i][1] = "dealloc" => i = Len(log)
        /\ \A i \in DOMAIN log, j \in DOMAIN log :
             (log[i][1] = "yield" /\ log[j][1] = "drop") => i < j
        /\ heapCap = 0

C2_Witness ==
    /\ variant = 3 /\ status = "gone" /\ lastOp = "drop_iter" /\ ~zst
    /\ snap.held = <<1, 2, 3>>
    /\ log = << <<"yield", 1>>, <<"drop", 2>>, <<"drop", 3>>, <<"dealloc", cap>> >>

\* C3: in refactor3.rs, dropping a Vec that holds n elements runs the
\* destructor of exactly those n, each once, from the last index down to
\* index 0, and releases the buffer only after the last of them.
C3_VecDropOrder ==
    (variant = 3 /\ status = "gone" /\ lastOp = "drop_vec") =>
        LET n == Len(snap.held)
            drops == [i \in 1..n |-> <<"drop", snap.held[n + 1 - i]>>]
        IN /\ log = drops \o (IF cap # 0 /\ ~zst THEN << <<"dealloc", cap>> >>
                             ELSE <<>>)
           /\ \A e \in Ids : moved[e] - snap.moved[e] = Count(snap.held, e)
           /\ ~ub

C3_Witness ==
    /\ variant = 3 /\ status = "gone" /\ lastOp = "drop_vec" /\ ~zst
    /\ snap.held = <<2, 1, 3>>
    /\ log = << <<"drop", 3>>, <<"drop", 1>>, <<"drop", 2>>, <<"dealloc", cap>> >>

\* C4: in refactor3.rs the allocator never takes more dealloc calls than it
\* has handed out blocks, and none with a block or layout it did not hand
\* out; when the Vec or the IntoIter made of it is gone, the block is freed;
\* with capacity 0 or a zero-sized type there is no dealloc call at all.
C4_BufferFreedOnce ==
    variant = 3 =>
        /\ frees <= allocs
        /\ ~ub
        /\ status = "gone" => (frees = allocs /\ heapCap = 0)
        /\ (zst \/ cap = 0) => (frees = 0 /\ allocs = 0)

C4_Witness ==
    /\ variant = 3 /\ status = "gone" /\ lastOp = "drop_iter"
    /\ allocs = 1 /\ frees = 1 /\ cap > 1

\* C5, as claimed (for a sized element type): in every state that
\* new/push/pop/insert/remove/drain reach, len <= cap, every slot of [0, len)
\* is initialized and every slot of [len, cap) is uninitialized.
C5_Original ==
    (status \in {"vec", "drain"} /\ ~zst
       /\ lastOp \in {"new", "push", "pop", "insert", "remove", "drain"}) =>
        /\ len <= cap
        /\ \A i \in Slots : i < len => init[i]
        /\ \A i \in Slots : (len <= i /\ i < cap) => ~init[i]

\* C5, amended: len <= cap and every slot of [0, len) is initialized; a slot
\* of [len, cap) is initialized only while a Drain is alive and has not
\* consumed it (the slots of its cursor), or after a Drain was forgotten.
C5_SlotsInvariant ==
    status \in {"vec", "drain"} =>
        /\ len <= cap
        /\ \A i \in Slots : i < len => init[i]
        /\ \A i \in Slots :
             (len <= i /\ i < cap /\ init[i]) =>
                 \/ status = "drain" /\ i \in Pending
                 \/ forgot
        /\ status = "drain" => \A i \in Pending : init[i]

C5_Witness ==
    /\ status = "drain" /\ ~zst /\ lastOp = "next"
    /\ snap.held = <<1, 2, 3>>
    /\ len = 0 /\ start = 0 /\ end = 2
    /\ init[0] /\ init[1] /\ ~init[2]

\* n is a power of two.
IsPow2(n) == \E k \in 0..UsizeBits : n = 2^k

\* C6, as claimed: after n pushes on a new Vec, len = n and cap is 0 when
\* n = 0 and otherwise a power of two >= n.
C6_Original ==
    (status = "vec" /\ onlyPush) =>
        /\ len = NCreated
        /\ NCreated = 0 => cap = 0
        /\ NCreated > 0 => (IsPow2(cap) /\ cap >= NCreated)

\* C6, amended: after n pushes on a new Vec, len = n; with a sized element
\* type cap is 0 when n = 0 and otherwise the smallest power of two >= n,
\* every grow having allocated 1 element or doubled the capacity; with a
\* zero-sized element type cap is usize::MAX whatever n is.
C6_PushGrowth ==
    (status = "vec" /\ onlyPush) =>
        /\ len = NCreated
        /\ zst => cap = UsizeMax
        /\ ~zst =>
             /\ NCreated = 0 => cap = 0
             /\ NCreated > 0 =>
                  (IsPow2(cap) /\ cap >= NCreated /\ cap < 2 * NCreated)
             /\ \A i \in DOMAIN log :
                  \/ log[i] = <<"alloc", 1, TRUE>> /\ cap = 1
                  \/ /\ log[i][1] = "realloc"
                     /\ log[i][3] = 2 * log[i][2]
                     /\ log[i][3] = cap

C6_Witness ==
    /\ status = "vec" /\ onlyPush /\ ~zst
    /\ len = 3 /\ cap = 4
    /\ log = << <<"realloc", 2, 4, TRUE>> >>

\* C7: after any number of pushes on a new Vec, grow steps included, the
\* slice [0, len) reads back the pushed values in the order of the pushes.
C7_PushOrder ==
    (status = "vec" /\ onlyPush) =>
        /\ deref(World) = [i \in 1..NCreated |-> IF zst THEN 1 ELSE i]
        /\ ~ub

C7_Witness ==
    /\ status = "vec" /\ onlyPush /\ ~zst
    /\ deref(World) = <<1, 2, 3>>
    /\ cap = 4 /\ ptr = 3

\* C8: from every state of the Vec, push(v) followed at once by pop()
\* returns Some(v) and leaves the length and the slice [0, len) as they were.
C8_PushPopIdentity ==
    (status = "vec" /\ CanCreate(World)) =>
        \A ok \in BOOLEAN, addr \in Addrs :
            LET v == Fresh(World)
                w1 == push(Give(World, v, "push"), v, ok, addr)
                w2 == pop(Call(w1, "pop"))
            IN w1.status = "vec" =>
                   /\ w2.ret = Some(v)
                   /\ w2.len = len
                   /\ deref(w2) = deref(World)
                   /\ w2.status = "vec" /\ ~w2.ub

C8_Witness ==
    /\ status = "vec" /\ ~zst
    /\ lastOp = "pop" /\ prevOp = "push"
    /\ ret = Some(3)
    /\ deref(World) = <<2, 1>> /\ cap = 4

\* C9: from every state of the Vec and for every index of 0..len,
\* insert(index, v) followed at once by remove(index) returns v and leaves
\* the length and the order of the elements as they were.
C9_InsertRemoveIdentity ==
    (status = "vec" /\ CanCreate(World)) =>
        \A index \in 0..len, ok \in BOOLEAN, addr \in Addrs :
            LET v == Fresh(World)
                w1 == insert(Give(World, v, "insert"), index, v, ok, addr)
                w2 == remove(Call(w1, "remove"), index)
            IN w1.status = "vec" =>
                   /\ w2.ret = Value(v)
                   /\ w2.len = len
                   /\ deref(w2) = deref(World)
                   /\ w2.status = "vec" /\ ~w2.ub

\* insert(1, 3) into <<1, 2>> and remove(1): the shift back left its copy of
\* 2 in slot 2.
C9_Witness ==
    /\ status = "vec" /\ ~zst
    /\ lastOp = "remove" /\ prevOp = "insert"
    /\ ret = Value(3)
    /\ deref(World) = <<1, 2>> /\ bits[2] = 2

\* C10: for every index of 0..len, insert(index, v) leaves the elements
\* before index where they were, puts v at index and the elements from index
\* on one place to the right, with the length one more, a grow included; at
\* index = len it leaves the state push(v) leaves.
C10_InsertShifts ==
    (status = "vec" /\ CanCreate(World)) =>
        \A index \in 0..len, ok \in BOOLEAN, addr \in Addrs :
            LET v == Fresh(World)
                g == Give(World, v, "insert")
                w1 == insert(g, index, v, ok, addr)
                old == deref(World)
            IN /\ w1.status = "vec" =>
                    /\ w1.len = len + 1
                    /\ deref(w1) = SubSeq(old, 1, index) \o <<v>>
                                     \o SubSeq(old, index + 1, len)
                    /\ ~w1.ub
               /\ index = len => w1 = push(g, v, ok, addr)

C10_Witness ==
    /\ status = "vec" /\ ~zst /\ lastOp = "insert"
    /\ deref(World) = <<1, 3, 2>>
    /\ log = << <<"realloc", 2, 4, TRUE>> >>

\* How many slots own a value.
NInit(w) == Cardinality({i \in Slots : w.init[i]})

\* C11: for every index of 0..len-1, remove(index) returns the element that
\* was at index, makes the length one less, leaves the elements before index
\* where they were and moves each element after index one place to the left:
\* the slice afterwards is the old one without that element, one value was
\* moved out and no other slot gained or lost its value.
C11_RemoveShifts ==
    status = "vec" =>
        \A index \in 0..(len - 1) :
            LET old == deref(World)
                w1 == remove(Call(World, "remove"), index)
            IN /\ w1.status = "vec" /\ ~w1.ub
               /\ w1.ret = Value(old[index + 1])
               /\ w1.len = len - 1
               /\ deref(w1) = SubSeq(old, 1, index) \o SubSeq(old, index + 2, len)
               /\ \A i \in Slots : i < w1.len => w1.init[i]
               /\ NInit(w1) = NInit(World) - 1
               /\ w1.moved = [moved EXCEPT ![old[index + 1]] = @ + 1]
               /\ w1.cap = cap /\ w1.ptr = ptr /\ w1.log = <<>>

\* remove(0) on <<1, 2, 3>>: slot 2 keeps the bits of 3 and owns nothing.
C11_Witness ==
    /\ status = "vec" /\ ~zst /\ lastOp = "remove"
    /\ ret = Value(1)
    /\ deref(World) = <<2, 3>> /\ bits[2] = 3 /\ ~init[2]

\* C12: insert(index, v) with index > len and remove(index) with index >= len
\* end in the fatal "index out of bounds" and return nothing; the Vec, its
\* buffer and the allocator are as they were when the call was made: no
\* grow, no shift and no write comes before the check, also when len = cap.
C12_BoundsCheckFirst ==
    /\ status = "vec" =>
         /\ LET g == Give(World, Fresh(World), "insert")
                fatal == [g EXCEPT !.status = "index out of bounds"]
            IN \A index \in (len + 1)..(UsizeMax + 1), ok \in BOOLEAN, addr \in Addrs :
                   insert(g, index, Fresh(World), ok, addr) = fatal
         /\ LET c == Call(World, "remove")
                fatal == [c EXCEPT !.status = "index out of bounds"]
            IN \A index \in len..(UsizeMax + 1) : remove(c, index) = fatal
    /\ status = "index out of bounds" =>
         /\ lastOp \in {"insert", "remove"}
         /\ log = <<>> /\ len <= cap /\ ~ub
         /\ \A i \in Slots : i < len => init[i]

\* insert(3, v) into a full Vec of 2: no realloc was issued.
C12_Witness ==
    /\ status = "index out of bounds" /\ lastOp = "insert" /\ ~zst
    /\ len = 2 /\ cap = 2 /\ heapCap = 2 /\ allocs = 1
    /\ deref(World) = <<1, 2>> /\ log = <<>>

\* C13: pop() on a Vec of length 0 returns None and changes nothing else (a
\* Vec call that returned None is a pop that found the Vec empty); on a Vec
\* of length > 0 it returns the element at index len - 1 and makes the length
\* exactly one less, the capacity, the buffer and the other elements as they
\* were.
C13_Pop ==
    /\ status = "vec" =>
         LET c == Call(World, "pop")
             old == deref(World)
             w1 == pop(c)
         IN IF len = 0 THEN w1 = [c EXCEPT !.ret = None]
            ELSE /\ w1.ret = Some(old[len])
                 /\ w1.len = len - 1
                 /\ w1.cap = cap /\ w1.ptr = ptr /\ w1.bits = bits
                 /\ w1.heapCap = heapCap /\ w1.log = <<>>
                 /\ deref(w1) = SubSeq(old, 1, len - 1)
                 /\ w1.moved = [moved EXCEPT ![old[len]] = @ + 1]
                 /\ w1.status = "vec" /\ ~w1.ub
    /\ (status = "vec" /\ ret = None) => (lastOp = "pop" /\ len = 0)

\* push, push, pop, pop, pop: the third pop finds the Vec empty.
C13_Witness ==
    /\ status = "vec" /\ ~zst /\ lastOp = "pop" /\ prevOp = "pop"
    /\ ret = None /\ len = 0 /\ cap = 2
    /\ bits[0] = 1 /\ bits[1] = 2

\* s back to front.
Reverse(s) == [i \in 1..Len(s) |-> s[Len(s) + 1 - i]]

\* C14: a Drain of a Vec that held e0..e(n-1) yields e(n-1), ..., e0 in that
\* order, whatever mix of next and next_back consumes it: what it has yielded
\* so far is the start of the reversed slice, each call returns the last
\* element its cursor still covers, and a call that returns None has had all
\* n yielded before it.
C14_DrainReverseOrder ==
    status = "drain" =>
        LET ys == Elems(log, "yield")
            n == Len(snap.held)
        IN /\ Len(ys) <= n
           /\ ys = SubSeq(Reverse(snap.held), 1, Len(ys))
           /\ (lastOp \in {"next", "next_back"} /\ ret # None) =>
                  ret = Some(snap.held[n + 1 - Len(ys)])
           /\ (lastOp \in {"next", "next_back"} /\ ret = None) => Len(ys) = n
           /\ ~ub

\* drain of <<1, 2, 3>>: Drain::next has just yielded 2, after 3.
C14_Witness ==
    /\ status = "drain" /\ ~zst /\ lastOp = "next"
    /\ snap.held = <<1, 2, 3>>
    /\ Elems(log, "yield") = <<3, 2>> /\ ret = Some(2)
    /\ init[0] /\ ~init[1]

\* How many values the cursor has yielded from the front and from the back
\* of the n slots it was made over.
FromFront == IF zst THEN Wrap(start - Dangling + UsizeMax + 1) ELSE start
FromBack ==
    LET n == Len(snap.held)
    IN IF zst THEN Wrap(Dangling + n - end + UsizeMax + 1) ELSE n - end
\* The values of sequence s that are in set S, in the order of s.
Only(s, S) == SelectSeq(s, LAMBDA e : e \in S)
\* The values of s at the indices lo..hi.
Range(s, lo, hi) == {s[i] : i \in lo..hi}

\* C15, apart from the order of start and end: for the cursor of an IntoIter
\* or a Drain over n slots, under every interleaving of next and next_back,
\* f values were yielded from the front and b from the back with f + b <= n,
\* each slot once; the front ones in ascending and the back ones in
\* descending index order; the slots between still own their values; a call
\* moves one end by one slot toward the other or, with start = end, yields
\* None and changes nothing, so that None comes after exactly n values and
\* stays.
C15_CursorYields ==
    status \in {"iter", "drain"} =>
        LET n == Len(snap.held)
            f == FromFront
            b == FromBack
            ys == Elems(log, "yield")
            w == Step(World, "next")
            wb == Step(World, "next_back")
        IN /\ f + b <= n /\ Len(ys) = f + b /\ ~ub
           /\ (start = end) <=> (f + b = n)
           /\ \A i \in 0..(n - 1) : init[i] <=> (f <= i /\ i < n - b)
           /\ \A e \in Ids :
                moved[e] - snap.moved[e] = Count(ys, e) /\ Count(ys, e) <= Count(snap.held, e)
           /\ ~zst =>
                /\ Only(ys, Range(snap.held, 1, f)) = SubSeq(snap.held, 1, f)
                /\ Only(ys, Range(snap.held, n - b + 1, n))
                     = Reverse(SubSeq(snap.held, n - b + 1, n))
           /\ IF start = end
              THEN /\ next(w) = [w EXCEPT !.ret = None]
                   /\ next_back(wb) = [wb EXCEPT !.ret = None]
              ELSE /\ next(w).ret = Some(IF zst THEN 1 ELSE snap.held[f + 1])
                   /\ next(w).end = end
                   /\ next(w).start = (IF zst THEN Wrap(start + 1) ELSE start + 1)
                   /\ next_back(wb).ret = Some(IF zst THEN 1 ELSE snap.held[n - b])
                   /\ next_back(wb).start = start
                   /\ next_back(wb).end
                        = (IF zst THEN Wrap(end - 1 + UsizeMax + 1) ELSE end - 1)
           /\ (lastOp \in {"next", "next_back"} /\ ret = None) => start = end

\* C15, as claimed: all of the above, and start <= end in every state of
\* the cursor.
C15_Original ==
    /\ C15_CursorYields
    /\ status \in {"iter", "drain"} => start <= end

\* The log's allocator calls.
AllocatorCalls(l) ==
    SelectSeq(l, LAMBDA ev : ev[1] \in {"alloc", "realloc", "dealloc"})

\* C16: in refactor3.rs with a zero-sized element type the capacity is
\* usize::MAX from new on and no operation ever calls alloc, realloc or
\* dealloc; a push or insert (with a valid index) on a Vec of length below
\* usize::MAX does not reach grow, and on a Vec of length usize::MAX it ends
\* in the fatal "capacity overflow" with the Vec as it was: the length never
\* wraps around.
C16_ZstNeverAllocates ==
    (variant = 3 /\ zst) =>
        /\ cap = UsizeMax /\ len <= UsizeMax
        /\ AllocatorCalls(log) = <<>>
        /\ allocs = 0 /\ frees = 0 /\ heapCap = 0 /\ ptr = Dangling
        /\ status \notin {"oom"}
        /\ status = "capacity overflow" =>
             (lastOp \in {"push", "insert"} /\ len = UsizeMax)
        /\ (status = "vec" /\ CanCreate(World)) =>
             \A index \in 0..len, ok \in BOOLEAN, addr \in Addrs :
                 LET v == Fresh(World)
                     gp == Give(World, v, "push")
                     gi == Give(World, v, "insert")
                     wp == push(gp, v, ok, addr)
                     wi == insert(gi, index, v, ok, addr)
                 IN IF len = UsizeMax
                    THEN /\ wp = [gp EXCEPT !.status = "capacity overflow"]
                         /\ wi = [gi EXCEPT !.status = "capacity overflow"]
                    ELSE /\ wp.status = "vec" /\ wp.len = len + 1
                         /\ wi.status = "vec" /\ wi.len = len + 1

\* The push on a Vec of usize::MAX values of a zero-sized type.
C16_Witness ==
    /\ variant = 3 /\ zst /\ status = "capacity overflow" /\ lastOp = "push"
    /\ len = UsizeMax /\ cap = UsizeMax /\ log = <<>>
    /\ \A i \in 0..(UsizeMax - 1) : init[i]

\* C17: with a sized element type, in both files: grow, which a push or
\* insert reaches when len = cap, calls alloc for 1 element exactly when the
\* capacity is 0, and otherwise realloc of the block
\* held, from the capacity it has to twice that; ptr and cap are always the
\* address and the capacity of the block the allocator last handed out, so
\* that the old capacity of every realloc and the capacity of the dealloc,
\* which is the last call, are the ones the block was obtained with.
C17_AllocatorContract ==
    ~zst =>
        /\ ~ub
        /\ status # "gone" =>
             /\ cap = heapCap /\ ptr = heapAddr
             /\ cap = 0 => ptr = Dangling
        /\ \A i \in DOMAIN log :
             /\ log[i][1] = "alloc" => log[i][2] = 1
             /\ log[i][1] = "realloc" =>
                  (log[i][2] > 0 /\ log[i][3] = 2 * log[i][2])
             /\ log[i][1] = "dealloc" =>
                  /\ status = "gone" /\ i = Len(log)
                  /\ log[i][2] = cap /\ cap > 0
                  /\ heapCap = 0 /\ frees = 1
        /\ (status = "vec" /\ len = cap) =>
             \A ok \in BOOLEAN, addr \in Addrs :
                 LET c == Call(World, "push")
                     g == grow(c, ok, addr)
                 IN /\ g.log = IF cap = 0 THEN << <<"alloc", 1, ok>> >>
                               ELSE << <<"realloc", heapCap, 2 * cap, ok>> >>
                    /\ ~g.ub
                    /\ IF ok
                       THEN /\ g.status = "vec"
                            /\ g.ptr = addr /\ g.heapAddr = addr
                            /\ g.cap = g.heapCap
                            /\ g.cap = IF cap = 0 THEN 1 ELSE 2 * cap
                            /\ deref(g) = deref(World)
                       ELSE g = [c EXCEPT !.status = "oom", !.log = g.log]

\* refactor2.rs: a Vec grown to capacity 4 by alloc, realloc, realloc is
\* dropped.
C17_Witness ==
    /\ variant = 2 /\ status = "gone" /\ lastOp = "drop_vec"
    /\ cap = 4 /\ log = << <<"dealloc", 4>> >>
    /\ allocs = 1 /\ frees = 1 /\ heapCap = 0

\* k pushes in a row while the allocator has no memory to give (which values
\* are pushed makes no difference here).
RECURSIVE Refill(_, _)
Refill(w, k) ==
    IF k = 0 \/ w.status # "vec" THEN w
    ELSE Refill(push(w, 1, FALSE, 2), k - 1)

\* What drain() and the drop of the Drain leave alone: the buffer pointer,
\* the capacity, the block and its content, and the allocator.
SameBuffer(w, v) ==
    /\ w.ptr = v.ptr /\ w.cap = v.cap /\ w.bits = v.bits
    /\ w.heapAddr = v.heapAddr /\ w.heapCap = v.heapCap
    /\ w.allocs = v.allocs /\ w.frees = v.frees
    /\ w.variant = v.variant /\ w.zst = v.zst

\* C18: in refactor3.rs drain() sets len to 0 and makes the cursor, and
\* nothing else; each call on the Drain and its drop change only which of
\* the drained slots own a value: ptr, cap and the block are as before and
\* no allocator call is made.  Once the Drain is dropped the Vec is empty, no
\* slot owns a value, and cap pushes in a row succeed with no allocator
\* call (the next one after them reaches grow).
C18_DrainFrame ==
    variant = 3 =>
        /\ status = "vec" =>
             LET m == Mark(World, "drain")
                 d == drain(m)
             IN d.status = "drain" =>
                    /\ d = [m EXCEPT !.len = 0, !.status = "drain", !.ret = Unit,
                                     !.start = d.start, !.end = d.end]
                    /\ \A i \in Slots : d.init[i] = init[i]
        /\ status = "drain" =>
             LET x == Drain_drop(Step(World, "drop_drain"))
                 n == Len(snap.held)
             IN /\ len = 0
                /\ AllocatorCalls(log) = <<>>
                /\ SameBuffer(Drain_next(World), World)
                /\ SameBuffer(Drain_next_back(World), World)
                /\ x.status = "vec" /\ ~x.ub
                /\ SameBuffer(x, World)
                /\ AllocatorCalls(x.log) = <<>>
                /\ x.len = 0
                /\ \A i \in Slots : x.init[i] = (init[i] /\ i >= n)
                /\ LET r == Refill(x, cap)
                   IN /\ r.status = "vec" /\ r.len = cap /\ ~r.ub
                      /\ r.log = x.log
                      /\ r.ptr = ptr /\ r.cap = cap
                      /\ \A i \in Slots : i < cap => r.init[i]
                      /\ Refill(x, cap + 1).status \in {"oom", "capacity overflow"}

\* The Drain of <<1, 2, 3>> was dropped at once: the Vec is empty and keeps
\* its block of 4.
C18_Witness ==
    /\ variant = 3 /\ status = "vec" /\ lastOp = "drop_drain" /\ ~zst
    /\ snap.held = <<1, 2, 3>> /\ log = << <<"drop", 1>>, <<"drop", 2>>, <<"drop", 3>> >>
    /\ len = 0 /\ cap = 4 /\ heapCap = 4 /\ ptr = heapAddr
    /\ \A i \in Slots : ~init[i]

\* The sum of f over the elements.
RECURSIVE SumTo(_, _)
SumTo(f, k) == IF k = 0 THEN 0 ELSE f[k] + SumTo(f, k - 1)
Total(f) == SumTo(f, Cardinality(Ids))

\* C19: in refactor3.rs no value is moved out of its slot, and so none is
\* destroyed, more than once, whatever the calls: a value handed in is in
\* one slot or was moved out once, never both and never twice (or, after a
\* forgotten Drain, was overwritten in its slot unread).  When a Drain
\* is forgotten, the Vec has length 0 and still holds its block; dropping
\* the Vec then moves out and destroys nothing and frees the block, and the
\* slots the Drain had not consumed keep their values for good (leaked).
C19_NoDoubleDestroy ==
    variant = 3 =>
        /\ ~ub
        /\ \A e \in Ids : moved[e] <= created[e]
        /\ status \in {"vec", "drain", "iter", "gone"} =>
             /\ NInit(World) + Total(moved) <= Total(created)
             /\ ~forgot => NInit(World) + Total(moved) = Total(created)
        /\ \A e \in Ids : Count(Elems(log, "drop"), e) <= moved[e]
        /\ (status = "vec" /\ lastOp = "forget") =>
             LET w == Vec_drop(Mark(World, "drop_vec"))
             IN /\ len = 0
                /\ w.moved = moved /\ ~w.ub
                /\ Elems(w.log, "drop") = <<>>
                /\ \A i \in Pending : init[i]
                /\ w.init = init
                /\ w.heapCap = 0 /\ w.frees = w.allocs

\* drain of <<1, 2, 3>>, one value taken, the Drain forgotten: 1 and 2 are
\* still in their slots.
C19_Witness ==
    /\ variant = 3 /\ status = "vec" /\ lastOp = "forget" /\ ~zst
    /\ snap.held = <<1, 2, 3>> /\ Elems(log, "yield") = <<3>>
    /\ len = 0 /\ init[0] /\ init[1] /\ ~init[2]
    /\ moved = [e \in Ids |-> IF e = 3 THEN 1 ELSE 0]

\* C20, as claimed: in refactor2.rs, once a Vec that held n elements is
\* dropped, each of them was destroyed exactly once and the block was freed
\* after that; once an IntoIter is dropped, after any number of next and
\* next_back calls, every element it had not yielded was destroyed and the
\* block was freed exactly once; no slot is left owning a value.
C20_Original ==
    (variant = 2 /\ status = "gone") =>
        /\ \A e \in Ids :
             Count(Elems(log, "yield"), e) + Count(Elems(log, "drop"), e)
               = Count(snap.held, e)
        /\ \A i \in Slots : ~init[i]
        /\ cap # 0 =>
             /\ AllocatorCalls(log) = << <<"dealloc", cap>> >>
             /\ log[Len(log)] = <<"dealloc", cap>>
             /\ frees = 1 /\ heapCap = 0
        /\ ~ub

====
